---------------------------- MODULE Spec2Model ----------------------------
(***************************************************************************)
(* A model of cmd/mybittorrent/main.go: the bencode codec (decodeBencode,  *)
(* bencode), the metainfo derivation (parseToInfo), the peer wire client   *)
(* (handshake, waitPeerMessage, sendPeerMessage) and the download_piece    *)
(* command of main.                                                        *)
(*                                                                         *)
(* Go strings and []byte are sequences of bytes (0..255).  A Go value of   *)
(* type interface{} is a record [kind, val]:                               *)
(*    kind = "string"  val = the bytes                                     *)
(*    kind = "int"     val = the integer                                   *)
(*    kind = "list"    val = the sequence of the elements                  *)
(*    kind = "dict"    val = a function from keys (bytes) to values        *)
(*    kind = "nil"     val = <<>>   (the nil interface, a missing map key) *)
(* A Go runtime panic (index or slice out of range, failed type assertion) *)
(* ends the program: it is the outcome "panic", distinct from a returned   *)
(* error, "err".                                                           *)
(***************************************************************************)
EXTENDS Integers, Sequences, FiniteSets, TLC

VARIABLES
    pc,        \* position of the command that runs
    value,     \* codec: the value handed to bencode
    origin,    \* codec: where the bytes handed to decodeBencode come from
    encoded,   \* codec: the bytes handed to decodeBencode
    decoded,   \* codec: what decodeBencode returned
    reencoded, \* codec: what bencode returned for the decoded value
    file,      \* metainfo: the torrent files' contents, one per run
    meta,      \* metainfo: what parseToInfo returned, one per run
    hashed,    \* metainfo: the bytes handed to sha1.Sum, one per run
    conn,      \* handshake: the connection (open, written, inbound)
    reply,     \* handshake: what handshake returned
    peer,      \* peer wire: the frames the remote peer sends
    wait,      \* peer wire: the locals of waitPeerMessage, and what it returned
    dl,        \* download_piece: the locals of main
    trace,     \* peer wire: the calls made on the connection, in order
    output     \* download_piece: what os.WriteFile has written

vars == <<pc, value, origin, encoded, decoded, reencoded, file, meta, hashed,
          conn, reply, peer, wait, dl, trace, output>>

codecVars == <<value, origin, encoded, decoded, reencoded>>
metaVars  == <<file, meta, hashed>>
connVars  == <<conn, reply>>
peerVars  == <<peer, wait, dl, trace, output>>

---------------------------------------------------------------------------
(* Bytes *)

ChZero  == 48
ChNine  == 57
ChPlus  == 43
ChMinus == 45
ChColon == 58
ChD     == 100
ChE     == 101
ChI     == 105
ChL     == 108

\* The ASCII codes of the characters the literals below are written in.
Ascii ==
    [c \in {"0","1","2","3","4","5","6","7","8","9"} |->
        CASE c = "0" -> 48 [] c = "1" -> 49 [] c = "2" -> 50 [] c = "3" -> 51
          [] c = "4" -> 52 [] c = "5" -> 53 [] c = "6" -> 54 [] c = "7" -> 55
          [] c = "8" -> 56 [] c = "9" -> 57]
    @@ (":" :> 58) @@ ("-" :> 45) @@ (" " :> 32)
    @@ ("B" :> 66) @@ ("T" :> 84)
    @@ ("a" :> 97) @@ ("b" :> 98) @@ ("c" :> 99) @@ ("d" :> 100)
    @@ ("e" :> 101) @@ ("f" :> 102) @@ ("g" :> 103) @@ ("h" :> 104)
    @@ ("i" :> 105) @@ ("l" :> 108) @@ ("n" :> 110) @@ ("o" :> 111)
    @@ ("p" :> 112) @@ ("q" :> 113) @@ ("r" :> 114) @@ ("s" :> 115) @@ ("t" :> 116)
    @@ ("u" :> 117) @@ ("z" :> 122)

\* The bytes of a literal written as a sequence of one-character strings.
Bytes(chars) == [k \in 1..Len(chars) |-> Ascii[chars[k]]]

\* s[lo:hi] of Go, 0-based, for 0 <= lo <= hi <= len(s).
Slice(s, lo, hi) == SubSeq(s, lo + 1, hi)

\* Whether s[lo:hi] is within bounds; Go panics when it is not.
SliceOk(s, lo, hi) == 0 <= lo /\ lo <= hi /\ hi <= Len(s)

\* unicode.IsDigit(rune(b)) for a byte b: below U+0100 only '0'..'9' are digits.
IsDigit(b) == ChZero <= b /\ b <= ChNine

\* The index of the first byte c of s (0-based), or 0 when there is none: the
\* loops of decodeBencode leave their index variable at its zero value.
FirstIndex(s, c) ==
    IF \E k \in 1..Len(s) : s[k] = c
    THEN (CHOOSE k \in 1..Len(s) : s[k] = c /\ \A j \in 1..(k - 1) : s[j] # c) - 1
    ELSE 0

RECURSIVE DigitsValue(_)
DigitsValue(s) ==
    IF s = <<>> THEN 0
    ELSE DigitsValue(SubSeq(s, 1, Len(s) - 1)) * 10 + (s[Len(s)] - ChZero)

\* strconv.Atoi: an optional sign, then one or more decimal digits.
Atoi(s) ==
    LET signed == s # <<>> /\ s[1] \in {ChPlus, ChMinus}
        digits == IF signed THEN Tail(s) ELSE s
    IN  IF digits = <<>> \/ \E k \in 1..Len(digits) : ~IsDigit(digits[k])
        THEN [ok |-> FALSE, n |-> 0]
        ELSE [ok |-> TRUE,
              n  |-> IF signed /\ s[1] = ChMinus
                     THEN 0 - DigitsValue(digits) ELSE DigitsValue(digits)]

RECURSIVE NatDigits(_)
NatDigits(n) ==
    IF n < 10 THEN <<ChZero + n>> ELSE Append(NatDigits(n \div 10), ChZero + (n % 10))

\* fmt.Sprintf("%d", n)
Itoa(n) == IF n < 0 THEN <<ChMinus>> \o NatDigits(0 - n) ELSE NatDigits(n)

---------------------------------------------------------------------------
(* Values of type interface{} *)

StrVal(s)   == [kind |-> "string", val |-> s]
IntVal(n)   == [kind |-> "int", val |-> n]
ListVal(l)  == [kind |-> "list", val |-> l]
DictVal(m)  == [kind |-> "dict", val |-> m]
NilVal      == [kind |-> "nil", val |-> <<>>]

EmptyMap == [k \in {} |-> NilVal]

\* m[key] = v
MapSet(m, key, v) == [k \in (DOMAIN m) \cup {key} |-> IF k = key THEN v ELSE m[k]]

\* m[key] of a Go map: the zero value (nil interface) for a missing key.
MapGet(m, key) == IF key \in DOMAIN m THEN m[key] ELSE NilVal


---------------------------------------------------------------------------
(* decodeBencode *)

\* The three outcomes of a call: a return without error, a return with an
\* error (the code returns "", 0, err), and a runtime panic.
Ok(v, n)   == [st |-> "ok", val |-> v, n |-> n]
Err        == [st |-> "err", val |-> StrVal(<<>>), n |-> 0]
Panic      == [st |-> "panic", val |-> NilVal, n |-> 0]

\* The string case: <length>:<bytes>.
decodeString(s) ==
    LET firstColonIndex == FirstIndex(s, ChColon)
        length          == Atoi(Slice(s, 0, firstColonIndex))
        untilIndex      == firstColonIndex + 1 + length.n
    IN  IF ~length.ok THEN Err
        ELSE IF ~SliceOk(s, firstColonIndex + 1, untilIndex) THEN Panic
        ELSE Ok(StrVal(Slice(s, firstColonIndex + 1, untilIndex)), untilIndex)

\* The integer case: i<number>e.
decodeInteger(s) ==
    LET endIndex == FirstIndex(s, ChE)
    IN  IF ~SliceOk(s, 1, endIndex) THEN Panic
        ELSE LET num == Atoi(Slice(s, 1, endIndex))
             IN  IF ~num.ok THEN Err ELSE Ok(IntVal(num.n), endIndex + 1)

\* What the list and the dictionary case return after their loop.  The loop
\* has added up the counts of the children; untilIndex + 1 is returned.
ContainerConsumed(untilIndex) == untilIndex + 1

RECURSIVE decodeBencode(_), decodeListLoop(_, _, _), decodeDictLoop(_, _, _, _)

\* The for loop of the list case, from its state (in, ret, untilIndex).
decodeListLoop(in, ret, untilIndex) ==
    IF in = <<>> THEN Panic                       \* in[0]: index out of range
    ELSE IF in[1] = ChE THEN Ok(ListVal(ret), ContainerConsumed(untilIndex))
    ELSE LET child == decodeBencode(in)
         IN  IF child.st = "panic" THEN Panic
             ELSE IF child.st = "err" THEN Err
             ELSE IF ~SliceOk(in, child.n, Len(in)) THEN Panic   \* in[nextIndex:]
             ELSE decodeListLoop(Slice(in, child.n, Len(in)),
                                 Append(ret, child.val), untilIndex + child.n)

\* The for loop of the dictionary case, from its state (in, ret, key,
\* untilIndex).  key = "" means that the next value decoded is a key.
decodeDictLoop(in, ret, key, untilIndex) ==
    IF in = <<>> THEN Panic                       \* in[0]: index out of range
    ELSE IF in[1] = ChE THEN Ok(DictVal(ret), ContainerConsumed(untilIndex))
    ELSE LET child == decodeBencode(in)
         IN  IF child.st = "panic" THEN Panic
             ELSE IF child.st = "err" THEN Err
             ELSE IF key = <<>> /\ child.val.kind # "string"
                  THEN Panic                      \* decoded.(string)
             ELSE IF ~SliceOk(in, child.n, Len(in)) THEN Panic   \* in[nextIndex:]
             ELSE IF key = <<>>
                  THEN decodeDictLoop(Slice(in, child.n, Len(in)), ret,
                                      child.val.val, untilIndex + child.n)
             ELSE decodeDictLoop(Slice(in, child.n, Len(in)),
                                 MapSet(ret, key, child.val), <<>>,
                                 untilIndex + child.n)

decodeBencode(bencodedString) ==
    IF bencodedString = <<>> THEN Panic           \* bencodedString[0]
    ELSE IF IsDigit(bencodedString[1]) THEN decodeString(bencodedString)
    ELSE IF bencodedString[1] = ChI THEN decodeInteger(bencodedString)
    ELSE IF bencodedString[1] = ChL
         THEN decodeListLoop(Tail(bencodedString), <<>>, 0)
    ELSE IF bencodedString[1] = ChD
         THEN decodeDictLoop(Tail(bencodedString), EmptyMap, <<>>, 0)
    ELSE Err                                      \* "unexpected format"

---------------------------------------------------------------------------
(* bencode *)

\* Whether a is before b in the byte-wise order of Go's string comparison.
StringLess(a, b) ==
    \/ /\ Len(a) < Len(b)
       /\ \A k \in 1..Len(a) : a[k] = b[k]
    \/ \E k \in 1..(IF Len(a) < Len(b) THEN Len(a) ELSE Len(b)) :
          /\ a[k] < b[k]
          /\ \A j \in 1..(k - 1) : a[j] = b[j]

RECURSIVE InsertSorted(_, _)
InsertSorted(sorted, key) ==
    IF sorted = <<>> THEN <<key>>
    ELSE IF StringLess(key, Head(sorted)) THEN <<key>> \o sorted
    ELSE <<Head(sorted)>> \o InsertSorted(Tail(sorted), key)

RECURSIVE SortedFrom(_, _)
SortedFrom(keys, sorted) ==
    IF keys = <<>> THEN sorted
    ELSE SortedFrom(Tail(keys), InsertSorted(sorted, Head(keys)))

\* Leaves the keys in the order the range loop produced them.
KeysUnsorted(keys) == keys

\* sort.Strings(keys)
SortStrings(keys) == SortedFrom(keys, <<>>)

\* The orders in which `for key := range m` may produce the keys of m: Go
\* leaves the iteration order of a map unspecified.
RECURSIVE OrdersOf(_)
OrdersOf(keys) ==
    IF keys = {} THEN {<<>>}
    ELSE UNION {{<<k>> \o o : o \in OrdersOf(keys \ {k})} : k \in keys}

RangeOrders(m) == OrdersOf(DOMAIN m)

EncOk(bytes) == [st |-> "ok", out |-> bytes]
EncErr       == [st |-> "err", out |-> <<>>]

RECURSIVE bencode(_), bencodeItems(_), bencodeEntries(_, _)

\* The outcomes of encoding the items of a list one after the other and
\* joining them; the first error ends the loop.
bencodeItems(items) ==
    IF items = <<>> THEN {EncOk(<<>>)}
    ELSE UNION { IF h.st = "err" THEN {EncErr}
                 ELSE { IF t.st = "err" THEN EncErr ELSE EncOk(h.out \o t.out) :
                        t \in bencodeItems(Tail(items)) } :
                 h \in bencode(Head(items)) }

\* The outcomes of the loop over the sorted keys of m.
bencodeEntries(m, keys) ==
    IF keys = <<>> THEN {EncOk(<<>>)}
    ELSE UNION { UNION { IF k.st = "err" \/ v.st = "err" THEN {EncErr}
                         ELSE { IF t.st = "err" THEN EncErr
                                ELSE EncOk(k.out \o v.out \o t.out) :
                                t \in bencodeEntries(m, Tail(keys)) } :
                         v \in bencode(m[Head(keys)]) } :
                 k \in bencode(StrVal(Head(keys))) }

\* bencode(i): the set of its possible outcomes, one for each order in
\* which the range loops over the maps in i may run.
bencode(i) ==
    CASE i.kind = "string" ->
            {EncOk(Itoa(Len(i.val)) \o <<ChColon>> \o i.val)}
      [] i.kind = "int" ->
            {EncOk(<<ChI>> \o Itoa(i.val) \o <<ChE>>)}
      [] i.kind = "list" ->
            { IF j.st = "err" THEN EncErr ELSE EncOk(<<ChL>> \o j.out \o <<ChE>>) :
              j \in bencodeItems(i.val) }
      [] i.kind = "dict" ->
            UNION { { IF j.st = "err" THEN EncErr
                      ELSE EncOk(<<ChD>> \o j.out \o <<ChE>>) :
                      j \in bencodeEntries(i.val, sorted) } :
                    sorted \in {SortStrings(keys) : keys \in RangeOrders(i.val)} }
      [] OTHER -> {EncErr}                        \* "unexpected type"

\* The bytes bencode gives for v, for a v that it encodes in one way only.
Canonical(v) == (CHOOSE r \in bencode(v) : TRUE).out

---------------------------------------------------------------------------
(* The codec on bounded inputs *)

\* The largest number of elements of a generated list or dictionary.
MaxLen == 2
\* The largest length of an input that is not derived from a value.
MaxRawLen == 4

HelloStr == Bytes(<<"h","e","l","l","o">>)
FooStr   == Bytes(<<"f","o","o">>)
BarStr   == Bytes(<<"b","a","r">>)

\* {"hello": 52, "foo": "bar"}
HelloFooDict == DictVal((HelloStr :> IntVal(52)) @@ (FooStr :> StrVal(BarStr)))

Atoms == {StrVal(<<>>), StrVal(Bytes(<<"a">>)), IntVal(0), IntVal(-12)}

Keys == {<<>>, Bytes(<<"a">>), Bytes(<<"a","b">>), Bytes(<<"b">>)}

\* The containers that generated values nest.
Nested ==
    {ListVal(<<>>), ListVal(<<IntVal(1)>>),
     DictVal(EmptyMap), DictVal(Bytes(<<"a">>) :> IntVal(1))}

Elements == Atoms \cup Nested

ListsOf(elems) == {ListVal(l) : l \in UNION {[1..n -> elems] : n \in 0..MaxLen}}

DictsOf(elems) ==
    {DictVal(m) : m \in UNION {[ks -> elems] :
                               ks \in {s \in SUBSET Keys : Cardinality(s) <= MaxLen}}}

\* The values bencode is applied to.
Values ==
    Elements \cup ListsOf(Elements) \cup DictsOf(Elements)
    \cup {StrVal(HelloStr), IntVal(-52), IntVal(52),
          ListVal(<<StrVal(HelloStr), IntVal(52)>>), HelloFooDict}

RawAlphabet == {Ascii["1"], Ascii["2"], Ascii["a"], ChColon, ChMinus, ChD, ChE, ChI, ChL}

\* The literal inputs of the documentation and the tests.
Literals ==
    {Bytes(<<"5",":","h","e","l","l","o">>),
     Bytes(<<"1","0",":","h","e","l","l","o","1","2","3","4","5">>),
     Bytes(<<"i","5","2","e">>),
     Bytes(<<"i","-","5","2","e">>),
     Bytes(<<"l","5",":","h","e","l","l","o","i","5","2","e","e">>),
     Bytes(<<"d","3",":","f","o","o","3",":","b","a","r",
             "5",":","h","e","l","l","o","i","5","2","e","e">>),
     Bytes(<<"5",":","h","i">>),
     Bytes(<<"i","5","2">>),
     Bytes(<<"l","5",":","h","e","l","l","o">>)}

\* The inputs that are given as bytes: every string over RawAlphabet up to
\* MaxRawLen bytes (the empty one too), and the literals.
RawInputs == UNION {[1..n -> RawAlphabet] : n \in 0..MaxRawLen} \cup Literals

NoResult    == [st |-> "none", val |-> NilVal, n |-> 0]
NoEncoding  == [st |-> "none", out |-> <<>>]

IdleCodec ==
    /\ value = NilVal /\ origin = "none" /\ encoded = <<>>
    /\ decoded = NoResult /\ reencoded = NoEncoding
IdleMeta == file = <<>> /\ meta = <<>> /\ hashed = <<>>
IdleConn == conn = <<>> /\ reply = <<>>
IdlePeer ==
    /\ peer = <<>> /\ wait = <<>> /\ dl = <<>> /\ trace = <<>> /\ output = <<>>

InitCodec ==
    /\ IdleMeta /\ IdleConn /\ IdlePeer
    /\ decoded = NoResult /\ reencoded = NoEncoding
    /\ \/ /\ pc = "value"
          /\ value \in Values
          /\ origin = "value"
          /\ encoded = <<>>
       \/ /\ pc = "input"
          /\ value = NilVal
          /\ origin = "raw"
          /\ encoded \in RawInputs

\* bencode(value): one of its outcomes.
Bencode ==
    /\ pc = "value"
    /\ \E r \in bencode(value) :
          /\ r.st = "ok"
          /\ encoded' = r.out
    /\ origin' = "encoded"
    /\ pc' = "input"
    /\ UNCHANGED <<value, decoded, reencoded, metaVars, connVars, peerVars>>

\* The input is cut short: a proper, non-empty prefix of an encoding.
Truncate ==
    /\ pc = "input" /\ origin = "encoded"
    /\ \E n \in 1..(Len(encoded) - 1) : encoded' = SubSeq(encoded, 1, n)
    /\ origin' = "truncated"
    /\ UNCHANGED <<pc, value, decoded, reencoded, metaVars, connVars, peerVars>>

\* The children of an encoded list are wrapped as a dictionary: d<children>e.
Relabel ==
    /\ pc = "input" /\ origin = "encoded" /\ value.kind = "list"
    /\ encoded' = <<ChD>> \o Tail(encoded)
    /\ origin' = "relabelled"
    /\ UNCHANGED <<pc, value, decoded, reencoded, metaVars, connVars, peerVars>>

\* decodeBencode(encoded)
DecodeBencode ==
    /\ pc = "input"
    /\ decoded' = decodeBencode(encoded)
    /\ pc' = "decoded"
    /\ UNCHANGED <<value, origin, encoded, reencoded, metaVars, connVars, peerVars>>

\* bencode of the decoded value.
Rebencode ==
    /\ pc = "decoded" /\ decoded.st = "ok"
    /\ reencoded' \in bencode(decoded.val)
    /\ pc' = "reencoded"
    /\ UNCHANGED <<value, origin, encoded, decoded, metaVars, connVars, peerVars>>

NextCodec == Bencode \/ Truncate \/ Relabel \/ DecodeBencode \/ Rebencode

SpecCodec == InitCodec /\ [][NextCodec]_vars

---------------------------------------------------------------------------
(* Claims about the codec, under SpecCodec *)

Lit5Hello == Bytes(<<"5",":","h","e","l","l","o">>)
LitIMinus52 == Bytes(<<"i","-","5","2","e">>)
LitHelloList == Bytes(<<"l","5",":","h","e","l","l","o","i","5","2","e","e">>)
LitFooDict ==
    Bytes(<<"d","3",":","f","o","o","3",":","b","a","r",
            "5",":","h","e","l","l","o","i","5","2","e","e">>)

\* C1: round trip.  For a value v built from the four kinds, decoding
\* encode(v) returns v without error, and encoding the decoded value gives
\* encode(v) again.
C1_RoundTrip ==
    origin = "encoded" =>
        /\ pc = "decoded" => (decoded.st = "ok" /\ decoded.val = value)
        /\ pc = "reencoded" => (reencoded.st = "ok" /\ reencoded.out = encoded)

\* C2: decoding the encoding x of a value returns a consumed count equal to
\* the full length of x.
C2_ConsumedIsLength ==
    (pc = "decoded" /\ origin = "encoded") =>
        (decoded.st = "ok" /\ decoded.n = Len(encoded))

\* C3: the four literal cases, value and consumed count:
\* "5:hello" -> ("hello", 6), "i-52e" -> (-52, 5),
\* "l5:helloi52ee" -> (["hello", 52], 13),
\* "d3:foo3:bar5:helloi52ee" -> ({"foo":"bar","hello":52}, 24).
C3_LiteralCases ==
    pc = "decoded" =>
        /\ encoded = Lit5Hello => decoded = Ok(StrVal(HelloStr), 6)
        /\ encoded = LitIMinus52 => decoded = Ok(IntVal(-52), 5)
        /\ encoded = LitHelloList =>
              decoded = Ok(ListVal(<<StrVal(HelloStr), IntVal(52)>>), 13)
        /\ encoded = LitFooDict => decoded = Ok(HelloFooDict, 24)

\* a is before b, byte by byte; a proper prefix is before the longer string.
RECURSIVE BytewiseBefore(_, _)
BytewiseBefore(a, b) ==
    IF b = <<>> THEN FALSE
    ELSE IF a = <<>> THEN TRUE
    ELSE IF Head(a) # Head(b) THEN Head(a) < Head(b)
    ELSE BytewiseBefore(Tail(a), Tail(b))

\* The keys of m in ascending order.
Ascending(m) ==
    CHOOSE o \in RangeOrders(m) :
        \A j, k \in DOMAIN o : j < k => BytewiseBefore(o[j], o[k])

RECURSIVE JoinEntries(_, _)
JoinEntries(m, ks) ==
    IF ks = <<>> THEN <<>>
    ELSE Canonical(StrVal(Head(ks))) \o Canonical(m[Head(ks)])
         \o JoinEntries(m, Tail(ks))

RECURSIVE JoinItems(_)
JoinItems(items) ==
    IF items = <<>> THEN <<>>
    ELSE Canonical(Head(items)) \o JoinItems(Tail(items))

\* C4: canonical ordering.  Whatever order the map yields its keys in, the
\* encoding of a dictionary is d, the entries in ascending byte-wise order of
\* their keys, e; {"hello":52,"foo":"bar"} encodes to
\* "d3:foo3:bar5:helloi52ee"; a list is encoded in the order of its elements.
C4_CanonicalOrdering ==
    (pc = "input" /\ origin = "encoded") =>
        /\ value.kind = "dict" =>
              encoded = <<ChD>> \o JoinEntries(value.val, Ascending(value.val)) \o <<ChE>>
        /\ value.kind = "list" =>
              encoded = <<ChL>> \o JoinItems(value.val) \o <<ChE>>
        /\ value = HelloFooDict => encoded = LitFooDict

\* C4's case: the dictionary {"hello":52,"foo":"bar"}, of two keys, has been
\* encoded.
C4_Witness ==
    /\ pc = "input" /\ origin = "encoded"
    /\ value = HelloFooDict
    /\ Cardinality(DOMAIN value.val) = 2
    /\ encoded = LitFooDict

HasByte(s, c) == \E k \in 1..Len(s) : s[k] = c

\* The malformed inputs of claim C5: a byte-string whose declared length runs
\* past the end of the input, an integer without its terminating e, a list
\* or dictionary that is never closed.
TruncatedString(x) ==
    /\ x # <<>> /\ IsDigit(x[1]) /\ HasByte(x, ChColon)
    /\ LET colon == FirstIndex(x, ChColon)
           len   == Atoi(Slice(x, 0, colon))
       IN  len.ok /\ colon + 1 + len.n > Len(x)
UnterminatedInteger(x) == x # <<>> /\ x[1] = ChI /\ ~HasByte(x, ChE)
UnclosedContainer(x) == x # <<>> /\ x[1] \in {ChL, ChD} /\ ~HasByte(x, ChE)

C5_Malformed ==
    \/ TruncatedString(encoded)
    \/ UnterminatedInteger(encoded)
    \/ UnclosedContainer(encoded)
    \/ origin = "truncated" /\ value.kind \in {"int", "list", "dict"}
    \/ encoded = Bytes(<<"l","5",":","h","e","l","l","o">>)

\* C5: decoding such an input returns an error; it does not panic.
C5_MalformedRejected ==
    (pc = "decoded" /\ C5_Malformed) => decoded.st = "err"

\* Of the children wrapped as a dictionary: one at a key position (the
\* 1st, 3rd, ...) is not a byte-string; their number is odd.
NonStringKey(items) ==
    \E k \in 1..Len(items) : k % 2 = 1 /\ items[k].kind # "string"
Unpaired(items) == Len(items) % 2 = 1

\* C6: decoding a dictionary with a key that is not a byte-string, or with
\* unpaired entries, returns an error and no dictionary.
C6_BadDictionaryRejected ==
    (/\ pc = "decoded" /\ origin = "relabelled"
     /\ (NonStringKey(value.val) \/ Unpaired(value.val)))
        => decoded.st = "err"

---------------------------------------------------------------------------
(* parseToInfo *)

\* sha1.Size: the number of bytes of a digest.
Sha1Size == 20
eachPieceSize == 20
ChNewline == 10

RECURSIVE WeightedSum(_, _, _)
\* The sum of k * (b[k] + 1) for k in lo..hi.
WeightedSum(b, lo, hi) ==
    IF lo > hi THEN 0
    ELSE IF lo = hi THEN lo * (b[lo] + 1)
    ELSE LET mid == (lo + hi) \div 2
         IN  WeightedSum(b, lo, mid) + WeightedSum(b, mid + 1, hi)

ByteSum(b) == WeightedSum(b, 1, Len(b)) % 65521

\* sha1.Sum(b), as far as the model needs it: a function of the bytes with a
\* result of Sha1Size bytes.  It stands for SHA-1 and does not compute it;
\* what is claimed of a digest is claimed of the bytes handed to it.
Sha1(b) ==
    LET sum == ByteSum(b)
    IN  [k \in 1..Sha1Size |-> (sum * k + Len(b) + 7 * k) % 256]

HexDigit(n) == IF n < 10 THEN ChZero + n ELSE 87 + n

RECURSIVE Hex(_)
\* fmt.Sprintf("%x", s) of a string s
Hex(s) ==
    IF s = <<>> THEN <<>>
    ELSE <<HexDigit(Head(s) \div 16), HexDigit(Head(s) % 16)>> \o Hex(Tail(s))

AnnounceKey    == Bytes(<<"a","n","n","o","u","n","c","e">>)
InfoKey        == Bytes(<<"i","n","f","o">>)
LengthKey      == Bytes(<<"l","e","n","g","t","h">>)
PieceLengthKey == Bytes(<<"p","i","e","c","e"," ","l","e","n","g","t","h">>)
PiecesKey      == Bytes(<<"p","i","e","c","e","s">>)

NoInfo ==
    [TrackerURL |-> <<>>, Length |-> 0, InfoHash |-> <<>>,
     PieceLength |-> 0, PieceHashes |-> <<>>]

\* An outcome of parseToInfo, with the bytes it handed to sha1.Sum.
InfoResult(st, info, fed, bytes) ==
    [st |-> st, info |-> info, fed |-> fed, bytes |-> bytes]
InfoPanic == InfoResult("panic", NoInfo, FALSE, <<>>)
InfoErr   == InfoResult("err", NoInfo, FALSE, <<>>)

RECURSIVE pieceHashesLoop(_, _, _)
\* The loop over pieceStr, from i with PieceHashes = acc.
pieceHashesLoop(pieceStr, i, acc) ==
    IF ~(i < Len(pieceStr)) THEN [st |-> "ok", out |-> acc]
    ELSE IF ~SliceOk(pieceStr, i, i + eachPieceSize)
         THEN [st |-> "panic", out |-> acc]
    ELSE pieceHashesLoop(pieceStr, i + eachPieceSize,
             acc \o Hex(Slice(pieceStr, i, i + eachPieceSize)) \o <<ChNewline>>)

\* The dictionary whose encoding is hashed.
HashedDictionary(decodedTop) == MapGet(decodedTop, InfoKey)

\* decodeTorrentFile and parseToInfo for a file f = [ok, content]: the set of
\* the possible outcomes (bencode's range loops).
parseToInfo(f) ==
    IF ~f.ok THEN {InfoErr}                           \* os.Open fails
    ELSE LET d == decodeBencode(f.content)
    IN  IF d.st = "panic" THEN {InfoPanic}
        ELSE IF d.st = "err" THEN {InfoErr}
        ELSE IF d.val.kind # "dict" THEN {InfoPanic}  \* decoded.(map[string]interface{})
        ELSE LET top      == d.val.val
                 metaInfo == HashedDictionary(top)
        IN  IF metaInfo.kind # "dict" THEN {InfoPanic}
            ELSE IF MapGet(top, AnnounceKey).kind # "string" THEN {InfoPanic}
            ELSE IF MapGet(metaInfo.val, LengthKey).kind # "int" THEN {InfoPanic}
            ELSE IF MapGet(metaInfo.val, PieceLengthKey).kind # "int" THEN {InfoPanic}
            ELSE { IF e.st = "err" THEN InfoErr
                   ELSE LET pieceStr == MapGet(metaInfo.val, PiecesKey)
                            hashes   == pieceHashesLoop(pieceStr.val, 0, <<>>)
                        IN  IF pieceStr.kind # "string" \/ hashes.st = "panic"
                            THEN InfoResult("panic", NoInfo, TRUE, e.out)
                            ELSE InfoResult("ok",
                                    [TrackerURL  |-> MapGet(top, AnnounceKey).val,
                                     Length      |-> MapGet(metaInfo.val, LengthKey).val,
                                     InfoHash    |-> Sha1(e.out),
                                     PieceLength |-> MapGet(metaInfo.val, PieceLengthKey).val,
                                     PieceHashes |-> hashes.out],
                                    TRUE, e.out) :
                   e \in bencode(metaInfo) }

---------------------------------------------------------------------------
(* parseToInfo on bounded torrent files, two runs side by side *)

Runs == 1..2

\* The map of the pairs <<key, value>> whose value is not nil.
MapOf(pairs) ==
    [k \in {p[1] : p \in {q \in pairs : q[2].kind # "nil"}} |->
        (CHOOSE p \in pairs : p[1] = k)[2]]

\* A digest as it stands in the pieces string of a torrent.
Digest(n) == Sha1(<<n>>)

QKey       == Bytes(<<"q">>)
ZKey       == Bytes(<<"z">>)
UrlListKey == Bytes(<<"u","r","l","-","l","i","s","t">>)

InfoDict(length, pieceLength, pieces, q, z) ==
    DictVal(MapOf({<<LengthKey, length>>, <<PieceLengthKey, pieceLength>>,
                   <<PiecesKey, pieces>>, <<QKey, q>>, <<ZKey, z>>}))

Torrent(announce, urlList, info) ==
    DictVal(MapOf({<<AnnounceKey, announce>>, <<InfoKey, info>>,
                   <<UrlListKey, urlList>>}))

OnePiece  == StrVal(Digest(1))
TwoPieces == StrVal(Digest(1) \o Digest(2))

\* Info dictionaries with all the required fields, and with further entries
\* q and z after them.
ValidInfos ==
    {InfoDict(IntVal(3), IntVal(2), pieces, q, z) :
        pieces \in {OnePiece, TwoPieces},
        q \in {NilVal, ListVal(<<>>)},
        z \in {NilVal, IntVal(1), IntVal(2)}}

ValidTorrents ==
    {Torrent(StrVal(a), u, i) :
        a \in {Bytes(<<"u">>), Bytes(<<"t">>)},
        u \in {NilVal, StrVal(Bytes(<<"a">>))},
        i \in ValidInfos}

BaseInfo == InfoDict(IntVal(3), IntVal(2), OnePiece, NilVal, NilVal)
BaseUrl  == StrVal(Bytes(<<"u">>))

\* Torrents with one required field absent or of the wrong kind, or with a
\* pieces string whose length is no multiple of 20.
FaultyTorrents ==
    {Torrent(a, NilVal, BaseInfo) : a \in {NilVal, IntVal(1)}}
    \cup {Torrent(BaseUrl, NilVal, i) : i \in {NilVal, StrVal(Bytes(<<"a">>))}}
    \cup {Torrent(BaseUrl, NilVal, InfoDict(l, IntVal(2), OnePiece, NilVal, NilVal)) :
             l \in {NilVal, StrVal(Bytes(<<"3">>))}}
    \cup {Torrent(BaseUrl, NilVal, InfoDict(IntVal(3), l, OnePiece, NilVal, NilVal)) :
             l \in {NilVal, StrVal(Bytes(<<"2">>))}}
    \cup {Torrent(BaseUrl, NilVal, InfoDict(IntVal(3), IntVal(2), p, NilVal, NilVal)) :
             p \in {NilVal, IntVal(0),
                    StrVal(SubSeq(Digest(1), 1, 5)),
                    StrVal(Digest(1) \o <<1>>)}}

\* The torrent files: the value a file was written from and its bytes; and
\* a file that cannot be opened.
Files ==
    {[ok |-> TRUE, value |-> v, content |-> Canonical(v)] :
        v \in ValidTorrents \cup FaultyTorrents}
    \cup {[ok |-> FALSE, value |-> NilVal, content |-> <<>>]}

NoMeta   == [st |-> "none", info |-> NoInfo]
NoHashed == [fed |-> FALSE, bytes |-> <<>>]

InitMeta ==
    /\ IdleCodec /\ IdleConn /\ IdlePeer
    /\ pc = [r \in Runs |-> "start"]
    /\ file \in [Runs -> Files]
    /\ meta = [r \in Runs |-> NoMeta]
    /\ hashed = [r \in Runs |-> NoHashed]

\* Run r derives the metainfo of its file.
ParseToInfo(r) ==
    /\ pc[r] = "start"
    /\ \E o \in parseToInfo(file[r]) :
          /\ meta' = [meta EXCEPT ![r] = [st |-> o.st, info |-> o.info]]
          /\ hashed' = [hashed EXCEPT ![r] = [fed |-> o.fed, bytes |-> o.bytes]]
    /\ pc' = [pc EXCEPT ![r] = "done"]
    /\ UNCHANGED <<file, codecVars, connVars, peerVars>>

NextMeta == \E r \in Runs : ParseToInfo(r)

SpecMeta == InitMeta /\ [][NextMeta]_vars

\* The info dictionary the file of run r was written from.
AuthoredInfo(r) == MapGet(file[r].value.val, InfoKey)

\* C7: the info-hash is the digest of the canonical encoding of the info
\* dictionary alone: two files with the same info dictionary get the same
\* info-hash whatever else they hold, identical files get identical
\* info-hashes, and files whose info dictionaries differ hand different
\* bytes to the hash.
C7_InfoHashScope ==
    \A r, s \in Runs :
        (meta[r].st = "ok" /\ meta[s].st = "ok") =>
            /\ hashed[r].fed
            /\ hashed[r].bytes = Canonical(AuthoredInfo(r))
            /\ meta[r].info.InfoHash = Sha1(hashed[r].bytes)
            /\ AuthoredInfo(r) = AuthoredInfo(s) =>
                  meta[r].info.InfoHash = meta[s].info.InfoHash
            /\ file[r].content = file[s].content =>
                  meta[r].info.InfoHash = meta[s].info.InfoHash
            /\ AuthoredInfo(r) # AuthoredInfo(s) =>
                  hashed[r].bytes # hashed[s].bytes

\* A required field of the torrent v is absent or of the wrong kind.
MissingField(v) ==
    \/ MapGet(v.val, AnnounceKey).kind # "string"
    \/ MapGet(v.val, InfoKey).kind # "dict"
    \/ /\ MapGet(v.val, InfoKey).kind = "dict"
       /\ LET i == MapGet(v.val, InfoKey).val
          IN  \/ MapGet(i, LengthKey).kind # "int"
              \/ MapGet(i, PieceLengthKey).kind # "int"
              \/ MapGet(i, PiecesKey).kind # "string"

\* The pieces string of the torrent v has a length that is no multiple of 20.
InvalidPieceTable(v) ==
    /\ ~MissingField(v)
    /\ Len(MapGet(MapGet(v.val, InfoKey).val, PiecesKey).val) % 20 # 0

\* C8: deriving the metainfo of such a torrent returns an error; no Info is
\* produced and the program does not crash.
C8_MetainfoErrors ==
    \A r \in Runs :
        (/\ pc[r] = "done" /\ file[r].ok
         /\ (MissingField(file[r].value) \/ InvalidPieceTable(file[r].value)))
            => meta[r].st = "err"

---------------------------------------------------------------------------
(* handshake, and the handshake command of main *)

\* byte(19)
protocolStrLength == 19
protocolStr ==
    Bytes(<<"B","i","t","T","o","r","r","e","n","t"," ",
            "p","r","o","t","o","c","o","l">>)
reservedBytesStr == Bytes(<<"0","0","0","0","0","0","0","0">>)
peerID ==
    Bytes(<<"0","0","1","1","2","2","3","3","4","4",
            "5","5","6","6","7","7","8","8","9","9">>)

\* The message handshake writes, without its reserved bytes.
HandshakeWithoutReserved(infoHash) ==
    <<protocolStrLength>> \o protocolStr \o infoHash \o peerID

\* The message handshake writes.
HandshakeMessage(infoHash) ==
    <<protocolStrLength>> \o protocolStr \o reservedBytesStr \o infoHash \o peerID

Zeros(n) == [k \in 1..n |-> 0]

Min(a, b) == IF a < b THEN a ELSE b

\* conn.Write(b) on the connection c: the bytes are written whole, or the
\* call fails and nothing is written.  c.writes counts the calls.
ConnWrite(c, b) ==
    IF c.writeFails
    THEN [err |-> TRUE, conn |-> [c EXCEPT !.writes = @ + 1]]
    ELSE [err |-> FALSE,
          conn |-> [c EXCEPT !.writes = @ + 1, !.sent = Append(@, b)]]

\* conn.Read(buf) with len(buf) = size on the connection c: what the
\* transport has delivered next, at most size bytes of it; an error at the
\* end of the stream.  The call blocks while nothing has arrived.
\* A read into a buffer of no bytes returns at once, without an error.
ReadEnabled(c) == c.inbound # <<>> \/ c.eof
ReadReady(c, size) == size = 0 \/ ReadEnabled(c)
ConnRead(c, size) ==
    IF size = 0
    THEN [err |-> FALSE, data |-> <<>>, conn |-> c]
    ELSE IF c.inbound = <<>>
    THEN [err |-> TRUE, data |-> <<>>, conn |-> c]
    ELSE LET chunk == Head(c.inbound)
             n     == Min(size, Len(chunk))
             rest  == SubSeq(chunk, n + 1, Len(chunk))
         IN  [err  |-> FALSE,
              data |-> SubSeq(chunk, 1, n),
              conn |-> [c EXCEPT !.inbound =
                           IF rest = <<>> THEN Tail(c.inbound)
                           ELSE <<rest>> \o Tail(c.inbound)]]

\* A return that leaves the connection as it is.
LeftOpen(c) == c

\* The deferred conn.Close(), run by every return and every panic after
\* the dial.
Closed(c) == [c EXCEPT !.open = FALSE]

\* handshake up to its read, for the outcome o of its parseToInfo: the
\* error or the panic of parseToInfo, or one conn.Write of the message.
handshakeWrite(c, o) ==
    IF o.st # "ok" THEN [st |-> o.st, conn |-> c]
    ELSE LET w == ConnWrite(c, HandshakeMessage(o.info.InfoHash))
         IN  [st |-> IF w.err THEN "err" ELSE "written", conn |-> w.conn]

\* The rest of handshake: one conn.Read into a buffer of len(handshake)
\* bytes, and the return of its last len(peerID) bytes.
handshakeRead(c, infoHash) ==
    LET size == Len(HandshakeMessage(infoHash))
        r    == ConnRead(c, size)
        buf  == r.data \o Zeros(size - Len(r.data))
    IN  [st   |-> IF r.err THEN "err" ELSE "ok",
         peer |-> IF r.err THEN <<>> ELSE SubSeq(buf, size - Len(peerID) + 1, size),
         conn |-> r.conn]

\* The handshake of the remote peer.
RemotePeerID == [k \in 1..Sha1Size |-> 200 + k]
RemoteHandshake ==
    <<protocolStrLength>> \o protocolStr \o Zeros(8) \o Digest(9) \o RemotePeerID

\* The ways the transport delivers the remote handshake: at once, in two
\* segments, or not at all.
Deliveries ==
    {<<>>, <<RemoteHandshake>>}
    \cup {<<SubSeq(RemoteHandshake, 1, k),
            SubSeq(RemoteHandshake, k + 1, Len(RemoteHandshake))>> :
          k \in {1, 20, 48, 67}}

NoReply == [st |-> "none", peer |-> <<>>]

InitHandshake ==
    /\ IdleCodec /\ IdlePeer
    /\ pc = "start"
    /\ file \in Files
    /\ meta = NoMeta
    /\ hashed = NoHashed
    /\ conn \in [open : {FALSE}, dialFails : BOOLEAN, writeFails : BOOLEAN,
                 writes : {0}, sent : {<<>>}, inbound : Deliveries, eof : BOOLEAN]
    /\ reply = NoReply

\* net.Dial, and defer conn.Close()
Dial ==
    /\ pc = "start"
    /\ IF conn.dialFails
       THEN pc' = "exit" /\ UNCHANGED conn
       ELSE pc' = "dialed" /\ conn' = [conn EXCEPT !.open = TRUE]
    /\ UNCHANGED <<file, meta, hashed, reply, codecVars, peerVars>>

\* handshake up to its read: parseToInfo and conn.Write.  A return and a
\* panic run the deferred conn.Close().
HandshakeWrite ==
    /\ pc = "dialed"
    /\ \E o \in parseToInfo(file) :
          LET w == handshakeWrite(conn, o)
          IN  /\ meta' = [st |-> o.st, info |-> o.info]
              /\ hashed' = [fed |-> o.fed, bytes |-> o.bytes]
              /\ IF w.st # "written"
                 THEN /\ reply' = [st |-> w.st, peer |-> <<>>]
                      /\ conn' = Closed(w.conn)
                      /\ pc' = "exit"
                 ELSE /\ reply' = reply
                      /\ conn' = w.conn
                      /\ pc' = "written"
    /\ UNCHANGED <<file, codecVars, peerVars>>

\* The read of handshake and its return; main prints the peer id and
\* returns, which closes the connection.
HandshakeRead ==
    /\ pc = "written"
    /\ ReadEnabled(conn)
    /\ LET r == handshakeRead(conn, meta.info.InfoHash)
       IN  /\ reply' = [st |-> r.st, peer |-> r.peer]
           /\ conn' = Closed(r.conn)
    /\ pc' = "exit"
    /\ UNCHANGED <<file, meta, hashed, codecVars, peerVars>>

NextHandshake == Dial \/ HandshakeWrite \/ HandshakeRead

SpecHandshake == InitHandshake /\ [][NextHandshake]_vars

\* The bytes s[lo..hi], counted from 0 as the wire format does.
BytesAt(s, lo, hi) == SubSeq(s, lo + 1, hi + 1)

\* C9: the handshake message written to the peer is 68 bytes: byte 0 is 19,
\* bytes 1..19 are "BitTorrent protocol", bytes 28..47 are the info-hash and
\* the last 20 bytes are the local peer id.
C9_HandshakeFraming ==
    \A k \in 1..Len(conn.sent) :
        LET m == conn.sent[k]
        IN  /\ Len(m) = 68
            /\ m[1] = 19
            /\ BytesAt(m, 1, 19) = protocolStr
            /\ BytesAt(m, 28, 47) = meta.info.InfoHash
            /\ Len(meta.info.InfoHash) = 20
            /\ BytesAt(m, 48, 67) = peerID

\* C9's case: a handshake has been written for a derived info-hash.
C9_Witness ==
    /\ pc = "written"
    /\ Len(conn.sent) = 1
    /\ meta.st = "ok"

\* C10: the reserved bytes 20..27 of the handshake written by the client
\* are zero bytes.
C10_ReservedZero ==
    \A k \in 1..Len(conn.sent) :
        \A j \in 20..27 : BytesAt(conn.sent[k], j, j) = <<0>>

\* The handshake command has run handshake to its return.
HandshakeReturned == pc = "exit" /\ reply.st \in {"ok", "err"}

\* C11: handshake returns bytes 48..67 of the peer's reply as the remote
\* peer id, and only then: when it returns a peer id, the 68 bytes of the
\* reply have all been read (none is left in the stream) and the peer id is
\* the one the peer sent; a read that delivers fewer than 68 bytes makes it
\* fail.
C11_HandshakeReply ==
    (HandshakeReturned /\ reply.st = "ok") =>
        /\ reply.peer = BytesAt(RemoteHandshake, 48, 67)
        /\ conn.inbound = <<>>

---------------------------------------------------------------------------
(* sendPeerMessage and waitPeerMessage *)

choke            == 0
unchoke          == 1
interested       == 2
notInterestedNot == 3
have             == 4
bitfield         == 5
request          == 6
piece            == 7
cancel           == 8

messageLengthLen == 4
messageIDLen     == 1

\* A uint32 is held as its two 16-bit halves [hi, lo]: the integers of TLC
\* end at 2^31 - 1.

\* uint32(n) for an int n: two's complement for a negative n.
U32(n) ==
    IF n >= 0 THEN [hi |-> (n \div 65536) % 65536, lo |-> n % 65536]
    ELSE LET m == (0 - n) - 1
         IN  [hi |-> 65535 - ((m \div 65536) % 65536), lo |-> 65535 - (m % 65536)]

\* binary.BigEndian.PutUint32(b, u): the four bytes written to b
PutUint32(u) == <<u.hi \div 256, u.hi % 256, u.lo \div 256, u.lo % 256>>

\* binary.BigEndian.Uint32(b)
Uint32(b) == [hi |-> b[1] * 256 + b[2], lo |-> b[3] * 256 + b[4]]

\* u - 1 in uint32: 0 - 1 is 2^32 - 1.
U32Pred(u) ==
    IF u.lo > 0 THEN [u EXCEPT !.lo = @ - 1]
    ELSE IF u.hi > 0 THEN [hi |-> u.hi - 1, lo |-> 65535]
    ELSE [hi |-> 65535, lo |-> 65535]

RECURSIVE U32Minus(_, _)
\* u - n in uint32, for a small constant n
U32Minus(u, n) == IF n = 0 THEN u ELSE U32Minus(U32Pred(u), n - 1)

\* The number a uint32 stands for where it is used as a length or an
\* index; 2^31 - 1 for everything from there on, which is more than any
\* length in the model.
IntOf(u) ==
    IF u.hi >= 32768 THEN 2147483647 ELSE u.hi * 65536 + u.lo

\* A length prefix that counts the payload and not the id byte.
PayloadLengthPrefix(payload) == PutUint32(U32(Len(payload)))

\* The first messageLengthLen bytes of the buffer of sendPeerMessage.
LengthPrefix(payload) == PutUint32(U32(messageIDLen + Len(payload)))

\* The buffer sendPeerMessage fills: the length, the id, the payload.
MessageBuf(id, payload) == LengthPrefix(payload) \o <<id>> \o payload

\* sendPeerMessage(conn, id, payload): one conn.Write of the buffer; err is
\* what it returns.
sendPeerMessage(c, id, payload) == ConnWrite(c, MessageBuf(id, payload))

\* A byte slice made with make([]byte, size), size a uint32, whose first
\* bytes a read has set to data; the bytes after them are zero and are not
\* written out.
MakeBuf(size, data) == [size |-> size, data |-> data]
NilBuf == MakeBuf(U32(0), <<>>)

\* len(b)
BufLen(b) == IntOf(b.size)

\* b[k] for 0 <= k < len(b)
BufAt(b, k) == IF k < Len(b.data) THEN b.data[k + 1] ELSE 0

\* The bytes b[lo:hi] of a buffer, for lo <= hi <= len(b).
BufSlice(b, lo, hi) == [k \in 1..(hi - lo) |-> BufAt(b, lo + k - 1)]

\* The locals of waitPeerMessage(conn, expid) before its first read.
WaitStart(expid) ==
    [expid |-> expid, at |-> "length", st |-> "running",
     messageLengthBuf |-> Zeros(messageLengthLen),
     messageIDBuf |-> Zeros(messageIDLen),
     payloadBuf |-> NilBuf]

NoWait ==
    [expid |-> 0, at |-> "none", st |-> "none",
     messageLengthBuf |-> <<>>, messageIDBuf |-> <<>>, payloadBuf |-> NilBuf]

\* The size of the buffer the next conn.Read of waitPeerMessage fills.
waitSize(w) ==
    CASE w.at = "length"  -> U32(messageLengthLen)
      [] w.at = "id"      -> U32(messageIDLen)
      [] w.at = "payload" -> U32Minus(Uint32(w.messageLengthBuf), messageIDLen)

\* One conn.Read of waitPeerMessage and what follows it up to the next read
\* or the return: the read of the length, of the id, or of the payload with
\* the comparison of the id.  Every iteration makes its buffers anew.
waitPeerMessageRead(w, c) ==
    LET size == waitSize(w)
        r    == ConnRead(c, IntOf(size))
    IN  IF r.err
        THEN [wait |-> [w EXCEPT !.st = "err", !.payloadBuf = NilBuf],
              conn |-> r.conn]
        ELSE CASE w.at = "length" ->
                    [wait |-> [w EXCEPT
                                  !.messageLengthBuf =
                                      r.data \o Zeros(messageLengthLen - Len(r.data)),
                                  !.at = "id"],
                     conn |-> r.conn]
               [] w.at = "id" ->
                    [wait |-> [w EXCEPT !.messageIDBuf = r.data, !.at = "payload"],
                     conn |-> r.conn]
               [] w.at = "payload" ->
                    [wait |-> IF w.messageIDBuf[1] = w.expid
                              THEN [w EXCEPT !.st = "ok",
                                             !.payloadBuf = MakeBuf(size, r.data)]
                              ELSE [WaitStart(w.expid) EXCEPT !.at = "length"],
                     conn |-> r.conn]

---------------------------------------------------------------------------
(* The two functions against a peer that sends frames *)

MaxFrames == 2

Message(id, payload) == [id |-> id, payload |-> payload]

\* The keep-alive of the protocol: a length prefix of zero and nothing
\* after it, so a frame without an id.
KeepAlive == Message(-1, <<>>)

\* What the remote peer writes for a message.
WireFrame(f) ==
    IF f = KeepAlive THEN PutUint32(U32(0)) ELSE MessageBuf(f.id, f.payload)

RECURSIVE StreamOf(_)
\* The bytes of a sequence of messages.
StreamOf(frames) ==
    IF frames = <<>> THEN <<>>
    ELSE WireFrame(Head(frames)) \o StreamOf(Tail(frames))

RECURSIVE Flatten(_)
\* The bytes of a sequence of segments.
Flatten(chunks) ==
    IF chunks = <<>> THEN <<>> ELSE Head(chunks) \o Flatten(Tail(chunks))

\* The stream as the transport hands it to the reads: whole (cut = 0), or
\* in two parts, the first of cut bytes.
Segments(stream, cut) ==
    IF stream = <<>> THEN <<>>
    ELSE IF cut = 0 \/ cut >= Len(stream) THEN <<stream>>
    ELSE <<SubSeq(stream, 1, cut), SubSeq(stream, cut + 1, Len(stream))>>

\* The messages a peer may send.
PeerMessages ==
    {Message(unchoke, <<>>), Message(bitfield, <<255>>),
     Message(have, <<0, 0, 0, 1>>), Message(piece, <<0, 0, 0, 1, 0, 0, 0, 0, 9, 8>>),
     KeepAlive}

PeerScripts == UNION {[1..n -> PeerMessages] : n \in 0..MaxFrames}

\* The messages the client may send.
SentMessages ==
    {Message(interested, <<>>), Message(have, <<7>>),
     Message(request, <<0, 0, 0, 1, 0, 0, 64, 0, 0, 0, 64, 0>>)}

InitWire ==
    /\ IdleCodec /\ IdleMeta
    /\ pc = "start"
    /\ peer \in {[frames |-> f, cut |-> k] :
                    f \in PeerScripts, k \in 0..(11 * MaxFrames)}
    /\ peer.cut < Len(StreamOf(peer.frames)) \/ peer.cut = 0
    /\ \E fails, eof \in BOOLEAN :
          conn = [open |-> TRUE, dialFails |-> FALSE, writeFails |-> fails,
                  writes |-> 0, sent |-> <<>>,
                  inbound |-> Segments(StreamOf(peer.frames), peer.cut),
                  eof |-> eof]
    /\ reply = NoReply
    /\ wait = NoWait
    /\ dl = <<>> /\ trace = <<>> /\ output = <<>>

\* A call of sendPeerMessage.
SendPeerMessage ==
    /\ pc = "start"
    /\ \E m \in SentMessages :
          LET r == sendPeerMessage(conn, m.id, m.payload)
          IN  /\ conn' = r.conn
              /\ trace' = Append(trace, [op |-> "send", id |-> m.id,
                                         payload |-> m.payload, err |-> r.err])
    /\ pc' = "done"
    /\ UNCHANGED <<peer, wait, dl, output, reply, codecVars, metaVars>>

\* A call of waitPeerMessage, up to its first read.
WaitPeerMessage ==
    /\ pc = "start"
    /\ \E expid \in {unchoke, bitfield, piece} : wait' = WaitStart(expid)
    /\ pc' = "wait"
    /\ UNCHANGED <<peer, conn, dl, trace, output, reply, codecVars, metaVars>>

\* The next read of waitPeerMessage; it blocks while nothing has arrived.
WaitRead ==
    /\ pc = "wait"
    /\ ReadReady(conn, IntOf(waitSize(wait)))
    /\ LET r == waitPeerMessageRead(wait, conn)
       IN  /\ wait' = r.wait
           /\ conn' = r.conn
           /\ IF r.wait.st = "running"
              THEN pc' = "wait" /\ trace' = trace
              ELSE /\ pc' = "done"
                   /\ trace' = Append(trace, [op |-> "wait", id |-> wait.expid,
                                              payload |-> r.wait.payloadBuf.data,
                                              err |-> r.wait.st = "err"])
    /\ UNCHANGED <<peer, dl, output, reply, codecVars, metaVars>>

NextWire == SendPeerMessage \/ WaitPeerMessage \/ WaitRead

SpecWire == InitWire /\ [][NextWire]_vars

\* C12: sendPeerMessage(id, payload) makes one write: the big-endian four
\* bytes of 1 + len(payload), the id byte, the payload as given; a failed
\* write is returned as the error, with no second write.
C12_SendFraming ==
    \A k \in 1..Len(trace) :
        trace[k].op = "send" =>
            /\ conn.writes = 1
            /\ IF trace[k].err
               THEN conn.sent = <<>>
               ELSE /\ Len(conn.sent) = 1
                    /\ LET b == conn.sent[1]
                           n == Len(trace[k].payload)
                       IN  /\ Len(b) = 5 + n
                           /\ BytesAt(b, 0, 3) = <<0, 0, 0, 1 + n>>
                           /\ b[5] = trace[k].id
                           /\ BytesAt(b, 5, 4 + n) = trace[k].payload

\* C12's case: a request with its payload of 12 bytes has been written.
C12_Witness ==
    /\ pc = "done"
    /\ Len(trace) = 1 /\ trace[1].op = "send" /\ ~trace[1].err
    /\ Len(trace[1].payload) = 12
    /\ Len(conn.sent) = 1

HasMatch(frames, id) == \E j \in 1..Len(frames) : frames[j].id = id

FirstMatch(frames, id) ==
    CHOOSE j \in 1..Len(frames) :
        frames[j].id = id /\ \A i \in 1..(j - 1) : frames[i].id # id

\* waitPeerMessage has returned.
WaitReturned == pc = "done" /\ wait.st \in {"ok", "err"}

\* C13: on a stream of well-formed frames waitPeerMessage(expid) returns
\* the payload of the first frame with the id expid; the frames before it
\* are read and dropped and what follows it stays in the stream; when a
\* read fails it returns an error and no payload.
C13_WaitFirstMatch ==
    WaitReturned =>
        /\ HasMatch(peer.frames, wait.expid) =>
              LET j == FirstMatch(peer.frames, wait.expid)
                  p == peer.frames[j].payload
              IN  /\ wait.st = "ok"
                  /\ wait.payloadBuf = MakeBuf(U32(Len(p)), p)
                  /\ Flatten(conn.inbound) =
                        StreamOf(SubSeq(peer.frames, j + 1, Len(peer.frames)))
        /\ wait.st = "ok" => HasMatch(peer.frames, wait.expid)
        /\ wait.st = "err" => wait.payloadBuf = NilBuf

---------------------------------------------------------------------------
(* getPeers *)

eachPeerSize == 6

PeersKey == Bytes(<<"p","e","e","r","s">>)

RECURSIVE peersLoop(_, _, _)
\* The loop over resPeer, from i with ret: the address and the port of each
\* entry.
peersLoop(resPeer, i, ret) ==
    IF ~(i < Len(resPeer)) THEN [st |-> "ok", peers |-> ret]
    ELSE IF ~SliceOk(resPeer, i, i + 4) \/ ~SliceOk(resPeer, i + 4, i + 6)
         THEN [st |-> "panic", peers |-> <<>>]
    ELSE peersLoop(resPeer, i + eachPeerSize,
             Append(ret, [ip   |-> Slice(resPeer, i, i + 4),
                          port |-> resPeer[i + 5] * 256 + resPeer[i + 6]]))

\* getPeers for the file f and the tracker's reply t = [ok, body]: ok is
\* whether the request and the read of its body succeed.
getPeers(f, t) ==
    { IF o.st # "ok" THEN [st |-> o.st, peers |-> <<>>]
      ELSE IF ~t.ok THEN [st |-> "err", peers |-> <<>>]
      ELSE LET d == decodeBencode(t.body)
           IN  IF d.st # "ok" THEN [st |-> d.st, peers |-> <<>>]
               ELSE IF d.val.kind # "dict" THEN [st |-> "panic", peers |-> <<>>]
               ELSE LET resPeer == MapGet(d.val.val, PeersKey)
                    IN  IF resPeer.kind # "string"
                        THEN [st |-> "panic", peers |-> <<>>]
                        ELSE IF resPeer.val = <<>>
                        THEN [st |-> "err", peers |-> <<>>]
                        ELSE peersLoop(resPeer.val, 0, <<>>) :
      o \in parseToInfo(f) }

---------------------------------------------------------------------------
(* The download_piece command of main *)

\* blockSize is 16 * 1024 in main; the blocks of the model have blockSize
\* bytes and its pieces up to MaxPieceLength bytes.
blockSize      == 2
MaxPieceLength == 5

\* A comparison of the digest that accepts every buffer.
HashAccepted(sumStr, pieceHashes) == TRUE

\* sumStr != info.PieceHashes, negated
HashMatches(sumStr, pieceHashes) == sumStr = pieceHashes

\* A comparison of the index that accepts every message.
IndexAccepted(index, pieceIdx) == TRUE

\* index != uint32(pieceIdx), negated
IndexMatches(index, pieceIdx) == index = U32(pieceIdx)

\* An error that is printed and not returned on.
ErrorIgnored(next) == next

\* Where main goes once a call has returned an error, next being where it
\* goes otherwise: it prints the error and returns.
AfterError(next) == "exit"

\* A client that sends interested without waiting for the bitfield.
InterestedFirst == "interested"

\* What main waits for first once handshake has returned.
AfterHandshake == "bitfield"

\* The data of a file of two pieces of pl bytes, and its piece idx.
FileData(pl) == [k \in 1..(2 * pl) |-> 10 + k]
TruePiece(pl, idx) ==
    IF idx \in {0, 1} /\ pl > 0
    THEN SubSeq(FileData(pl), idx * pl + 1, (idx + 1) * pl)
    ELSE Zeros(IF pl > 0 THEN pl ELSE 0)

\* The torrent of that file.
DlTorrent(pl) ==
    Torrent(BaseUrl, NilVal,
            InfoDict(IntVal(2 * pl), IntVal(pl),
                     StrVal(Sha1(TruePiece(pl, 0)) \o Sha1(TruePiece(pl, 1))),
                     NilVal, NilVal))

\* The torrent files of the command: well-formed ones of every piece
\* length, one without its announce, and one that cannot be opened.
DlFiles ==
    {[ok |-> TRUE, value |-> v, content |-> Canonical(v)] :
        v \in {DlTorrent(pl) : pl \in 1..MaxPieceLength}
              \cup {Torrent(NilVal, NilVal, BaseInfo)}}
    \cup {[ok |-> FALSE, value |-> NilVal, content |-> <<>>]}

\* os.Args[5]
PieceIdxStrs ==
    {Bytes(<<"0">>), Bytes(<<"1">>), Bytes(<<"-","1">>), Bytes(<<"q">>)}

\* The replies of the tracker: none, and bodies with two peers, one peer,
\* an empty peers string, five bytes of peers, a list, an open integer.
PeerEntry(n) == <<10, 0, 0, n, 26, 225>>
TrackerBody(peers) == Canonical(DictVal(MapOf({<<PeersKey, StrVal(peers)>>})))
TrackerReplies ==
    {[ok |-> FALSE, body |-> <<>>]}
    \cup {[ok |-> TRUE, body |-> b] :
            b \in {TrackerBody(PeerEntry(1) \o PeerEntry(2)),
                   TrackerBody(PeerEntry(1)),
                   TrackerBody(<<>>),
                   TrackerBody(SubSeq(PeerEntry(1), 1, 5)),
                   Canonical(ListVal(<<>>)),
                   Bytes(<<"i","5","2">>)}}

\* The blocks that tile a piece, and the piece message of block k.
NumBlocks(len) == (len + blockSize - 1) \div blockSize
Block(content, k) ==
    SubSeq(content, (k - 1) * blockSize + 1, Min(k * blockSize, Len(content)))
PieceMessage(idx, begin, block) ==
    Message(piece, PutUint32(U32(idx)) \o PutUint32(U32(begin)) \o block)

\* What a peer sends after its handshake: the bitfield, unchoke, and the
\* blocks of content that tile the piece from offset 0, in order.
Script(idx, content) ==
    <<Message(bitfield, <<192>>), Message(unchoke, <<>>)>>
    \o [k \in 1..NumBlocks(Len(content)) |->
           PieceMessage(idx, (k - 1) * blockSize, Block(content, k))]

\* The messages before the blocks, and the blocks with the first of them
\* sent twice, and in the reverse order.
Preamble == <<Message(bitfield, <<192>>), Message(unchoke, <<>>)>>
Blocks(idx, content) == SubSeq(Script(idx, content), 3, Len(Script(idx, content)))
Repeated(blocks) == IF blocks = <<>> THEN <<>> ELSE <<Head(blocks)>> \o blocks
Reversed(blocks) == [k \in 1..Len(blocks) |-> blocks[Len(blocks) + 1 - k]]

\* The peers: one that sends the true piece, one that sends it with a byte
\* changed, one whose blocks carry another piece index, one that sends a
\* have message first; one that sends its first block twice and one that
\* sends the blocks last to first; one whose piece message ends after six
\* bytes of payload, one whose block begins beyond the piece, and one
\* whose block runs past the end of the piece.
PeerKinds ==
    {"true", "corrupt", "index", "noisy",
     "repeat", "reversed", "short", "far", "long"}
ScriptOf(kind, pl, idx) ==
    LET content == TruePiece(pl, idx)
    IN  CASE kind = "true"    -> Script(idx, content)
          [] kind = "corrupt" ->
                Script(idx, [content EXCEPT ![Len(content)] = (@ + 1) % 256])
          [] kind = "index"   -> Script(idx + 1, content)
          [] kind = "noisy"   ->
                <<Message(have, <<0, 0, 0, 1>>)>> \o Script(idx, content)
          [] kind = "repeat"  -> Preamble \o Repeated(Blocks(idx, content))
          [] kind = "reversed" -> Preamble \o Reversed(Blocks(idx, content))
          [] kind = "short"   ->
                Preamble \o <<Message(piece, PutUint32(U32(idx)) \o <<0, 0>>)>>
          [] kind = "far"     ->
                Preamble \o <<PieceMessage(idx, pl + 1, Block(content, 1))>>
          [] kind = "long"    ->
                Preamble \o <<PieceMessage(idx, 1, content)>>

\* The bytes a peer sends: nothing, or its handshake and its messages.
PeerStream(p) ==
    IF p.greets THEN RemoteHandshake \o StreamOf(p.frames) ELSE <<>>

\* The places where the transport splits the bytes of a peer: nowhere, in
\* its handshake, in the length of its first message, in its last message.
CutsOf(stream) ==
    {c \in {0, 20, 71, Len(stream) - 3} : c = 0 \/ (0 < c /\ c < Len(stream))}

\* A peer: its kind, the messages it sends before it falls silent (the
\* first ones of its script), and where the transport splits its bytes;
\* and a peer that sends nothing.
RemotePeers(pl, idx) ==
    {[kind |-> "true", frames |-> <<>>, cut |-> 0, greets |-> FALSE]}
    \cup UNION {
           LET script == ScriptOf(kind, pl, idx)
           IN  UNION {
                 LET frames == SubSeq(script, 1, n)
                 IN  {[kind |-> kind, frames |-> frames, cut |-> cut,
                       greets |-> TRUE] :
                         cut \in CutsOf(RemoteHandshake \o StreamOf(frames))} :
                 n \in 0..Len(script)} :
           kind \in PeerKinds}

NoPeer   == [kind |-> "none", frames |-> <<>>, cut |-> 0, greets |-> FALSE]
NoOutput == [written |-> FALSE, data |-> <<>>]
NoConn ==
    [open |-> FALSE, dialFails |-> FALSE, writeFails |-> FALSE, writes |-> 0,
     sent |-> <<>>, inbound |-> <<>>, eof |-> FALSE]

\* The locals of main at its start: os.Args[3] when os.Args[2] is "-o"
\* (the empty path otherwise) and os.Args[5]; dialed holds the addresses
\* net.Dial has been called with.
DlStart(outputFilepath, pieceIdxStr) ==
    [outputFilepath |-> outputFilepath, pieceIdxStr |-> pieceIdxStr,
     pieceIdx |-> 0, peers |-> <<>>, dialed |-> <<>>, offset |-> 0,
     count |-> 0, i |-> 0, combinedBlock |-> <<>>, err |-> "none"]

InitDownload ==
    /\ IdleCodec
    /\ pc = "args"
    /\ file \in DlFiles
    /\ meta = NoMeta
    /\ hashed = NoHashed
    /\ conn = NoConn
    /\ reply = NoReply
    /\ peer = NoPeer
    /\ wait = NoWait
    /\ dl \in {DlStart(o, s) : o \in {<<>>, Bytes(<<"o">>)}, s \in PieceIdxStrs}
    /\ trace = <<>>
    /\ output = NoOutput

\* An entry of the trace.
Event(op, id, payload, err) ==
    [op |-> op, id |-> id, payload |-> payload, err |-> err]

\* The call of waitPeerMessage a position of main stands in, and the trace
\* with that call.
WaitOf(at) ==
    CASE at = "bitfield" -> WaitStart(bitfield)
      [] at = "unchoke"  -> WaitStart(unchoke)
      [] at = "piece"    -> WaitStart(piece)
      [] OTHER           -> NoWait
Enter(tr, at) ==
    IF at \in {"bitfield", "unchoke", "piece"}
    THEN Append(tr, Event("await", WaitOf(at).expid, <<>>, FALSE))
    ELSE tr

\* strconv.Atoi of the piece index and parseToInfo.
DlMetainfo ==
    /\ pc = "args"
    /\ LET a == Atoi(dl.pieceIdxStr)
       IN  IF ~a.ok
           THEN /\ dl' = [dl EXCEPT !.err = "atoi"]
                /\ pc' = AfterError("peers")
                /\ meta' = meta
           ELSE \E o \in parseToInfo(file) :
                   /\ meta' = [st |-> o.st, info |-> o.info]
                   /\ dl' = [dl EXCEPT
                                !.pieceIdx = a.n,
                                !.err = CASE o.st = "ok"  -> "none"
                                          [] o.st = "err" -> "metainfo"
                                          [] OTHER        -> "panic"]
                   /\ pc' = CASE o.st = "ok"  -> "peers"
                              [] o.st = "err" -> AfterError("peers")
                              [] OTHER        -> "exit"
    /\ UNCHANGED <<file, hashed, conn, reply, peer, wait, trace, output, codecVars>>

\* getPeers
DlGetPeers ==
    /\ pc = "peers"
    /\ \E t \in TrackerReplies : \E r \in getPeers(file, t) :
          /\ dl' = [dl EXCEPT
                       !.peers = r.peers,
                       !.err = CASE r.st = "ok"  -> @
                                 [] r.st = "err" -> "tracker"
                                 [] OTHER        -> "panic"]
          /\ pc' = CASE r.st = "ok"  -> "dial"
                     [] r.st = "err" -> AfterError("dial")
                     [] OTHER        -> "exit"
    /\ UNCHANGED <<file, meta, hashed, conn, reply, peer, wait, trace, output, codecVars>>

\* net.Dial("tcp", peers[1]) and defer conn.Close(): the index panics on a
\* list of fewer than two peers; the peer that answers is any of the peers.
DlDial ==
    /\ pc = "dial"
    /\ IF Len(dl.peers) < 2
       THEN /\ dl' = [dl EXCEPT !.err = "panic"]
            /\ pc' = "exit"
            /\ UNCHANGED <<conn, peer>>
       ELSE \E fails \in BOOLEAN :
               IF fails
               THEN /\ dl' = [dl EXCEPT !.dialed = <<dl.peers[2]>>,
                                        !.err = "dial"]
                    /\ pc' = AfterError("handshake")
                    /\ UNCHANGED <<conn, peer>>
               ELSE /\ \E p \in RemotePeers(meta.info.PieceLength, dl.pieceIdx),
                          eof \in BOOLEAN :
                          /\ peer' = p
                          /\ conn' = [NoConn EXCEPT
                                         !.open = TRUE,
                                         !.inbound = Segments(PeerStream(p), p.cut),
                                         !.eof = eof]
                    /\ dl' = [dl EXCEPT !.dialed = <<dl.peers[2]>>]
                    /\ pc' = "handshake"
    /\ UNCHANGED <<file, meta, hashed, reply, wait, trace, output, codecVars>>

\* The connection breaks: the writes from here on fail.
ConnBreaks ==
    /\ pc \in {"handshake", "interested", "request"}
    /\ conn.open /\ ~conn.writeFails
    /\ conn' = [conn EXCEPT !.writeFails = TRUE]
    /\ UNCHANGED <<pc, file, meta, hashed, reply, peer, wait, dl, trace, output, codecVars>>

\* handshake up to its read.
DlHandshakeWrite ==
    /\ pc = "handshake"
    /\ \E o \in parseToInfo(file) :
          LET w  == handshakeWrite(conn, o)
              to == CASE w.st = "written" -> "handshakeRead"
                      [] w.st = "err"     -> AfterError("handshakeRead")
                      [] OTHER            -> "exit"
          IN  /\ pc' = to
              /\ conn' = IF to = "exit" THEN Closed(w.conn) ELSE w.conn
              /\ dl' = [dl EXCEPT !.err = CASE w.st = "written" -> @
                                            [] w.st = "err"     -> "handshake"
                                            [] OTHER            -> "panic"]
    /\ UNCHANGED <<file, meta, hashed, reply, peer, wait, trace, output, codecVars>>

\* The read of handshake, its return, and the call of waitPeerMessage for
\* the bitfield up to its first read.
DlHandshakeRead ==
    /\ pc = "handshakeRead"
    /\ ReadEnabled(conn)
    /\ LET r  == handshakeRead(conn, meta.info.InfoHash)
           to == IF r.st = "ok" THEN AfterHandshake ELSE AfterError(AfterHandshake)
       IN  /\ reply' = [st |-> r.st, peer |-> r.peer]
           /\ pc' = to
           /\ conn' = IF to = "exit" THEN Closed(r.conn) ELSE r.conn
           /\ dl' = IF r.st = "ok" THEN dl ELSE [dl EXCEPT !.err = "handshake"]
           /\ wait' = WaitOf(to)
           /\ trace' = Enter(trace, to)
    /\ UNCHANGED <<file, meta, hashed, peer, output, codecVars>>

\* One read of a waitPeerMessage whose payload main drops, at the position
\* at of main; next is where main goes when it returns a payload.
DlWaitRead(at, next) ==
    /\ ReadReady(conn, IntOf(waitSize(wait)))
    /\ LET r  == waitPeerMessageRead(wait, conn)
           st == r.wait.st
           to == CASE st = "running" -> at
                   [] st = "ok"      -> next
                   [] st = "err"     -> AfterError(next)
       IN  /\ pc' = to
           /\ wait' = r.wait
           /\ conn' = IF to = "exit" THEN Closed(r.conn) ELSE r.conn
           /\ trace' = IF st = "running" THEN trace
                       ELSE Append(trace, Event("wait", wait.expid,
                                                r.wait.payloadBuf.data, st = "err"))
           /\ dl' = IF st = "err" THEN [dl EXCEPT !.err = "wait"] ELSE dl
    /\ UNCHANGED <<file, meta, hashed, reply, peer, output, codecVars>>

\* waitPeerMessage(conn, bitfield)
DlWaitBitfield ==
    /\ pc = "bitfield"
    /\ DlWaitRead("bitfield", "interested")

\* sendPeerMessage(conn, interested, []byte{}) and the call of
\* waitPeerMessage for unchoke up to its first read.
DlSendInterested ==
    /\ pc = "interested"
    /\ LET r  == sendPeerMessage(conn, interested, <<>>)
           to == IF r.err THEN AfterError("unchoke") ELSE "unchoke"
       IN  /\ pc' = to
           /\ conn' = IF to = "exit" THEN Closed(r.conn) ELSE r.conn
           /\ dl' = IF r.err THEN [dl EXCEPT !.err = "send"] ELSE dl
           /\ wait' = WaitOf(to)
           /\ trace' = Enter(Append(trace, Event("send", interested, <<>>, r.err)), to)
    /\ UNCHANGED <<file, meta, hashed, reply, peer, output, codecVars>>

\* waitPeerMessage(conn, unchoke)
DlWaitUnchoke ==
    /\ pc = "unchoke"
    /\ DlWaitRead("unchoke", "request")

\* One pass of the loop that sends the requests; after the last one,
\* make([]byte, info.PieceLength) and the first call of waitPeerMessage
\* for a piece, when count is above 0.
DlSendRequest ==
    /\ pc = "request"
    /\ LET offset  == dl.offset + blockSize
           payload == PutUint32(U32(dl.pieceIdx)) \o PutUint32(U32(offset))
                      \o PutUint32(U32(blockSize))
           r       == sendPeerMessage(conn, request, payload)
           last    == offset >= meta.info.PieceLength
           next    == IF ~last THEN "request"
                      ELSE IF meta.info.PieceLength < 0 THEN "exit"
                      ELSE IF 0 < dl.count THEN "piece" ELSE "verify"
           to      == IF r.err THEN AfterError(next) ELSE next
       IN  /\ pc' = to
           /\ conn' = IF to = "exit" THEN Closed(r.conn) ELSE r.conn
           /\ dl' = [dl EXCEPT
                        !.offset = offset,
                        !.count = IF r.err \/ last THEN @ ELSE @ + 1,
                        !.combinedBlock =
                            IF ~r.err /\ last /\ meta.info.PieceLength >= 0
                            THEN Zeros(meta.info.PieceLength) ELSE @,
                        !.err = IF r.err THEN "send"
                                ELSE IF last /\ meta.info.PieceLength < 0 THEN "panic"
                                ELSE @]
           /\ wait' = WaitOf(to)
           /\ trace' = Enter(Append(trace, Event("send", request, payload, r.err)), to)
    /\ UNCHANGED <<file, meta, hashed, reply, peer, output, codecVars>>

\* copy(combinedBlock[begin:], block) for block = payload[8:]
CopyBlock(combinedBlock, begin, payload) ==
    LET n == Min(BufLen(payload) - 8, Len(combinedBlock) - begin)
    IN  [k \in 1..Len(combinedBlock) |->
            IF begin < k /\ k <= begin + n
            THEN BufAt(payload, 8 + (k - begin - 1))
            ELSE combinedBlock[k]]

\* One read of waitPeerMessage(conn, piece) and, when it returns, the rest
\* of that pass of the loop over the piece messages: the index, the begin
\* offset, the copy of the block.
DlWaitPiece ==
    /\ pc = "piece"
    /\ ReadReady(conn, IntOf(waitSize(wait)))
    /\ LET r       == waitPeerMessageRead(wait, conn)
           st      == r.wait.st
           payload == r.wait.payloadBuf
           next    == IF dl.i + 1 < dl.count THEN "piece" ELSE "verify"
           index   == Uint32(BufSlice(payload, 0, 4))
           begin   == IntOf(Uint32(BufSlice(payload, 4, 8)))
           res     == CASE st = "running" -> "running"
                        [] st = "err" -> "wait"
                        [] BufLen(payload) < 4 -> "panic"
                        [] ~IndexMatches(index, dl.pieceIdx) -> "index"
                        [] BufLen(payload) < 8 -> "panic"
                        [] begin > Len(dl.combinedBlock) -> "panic"
                        [] OTHER -> "copy"
           to      == CASE res = "running" -> "piece"
                        [] res = "copy"    -> next
                        [] res = "panic"   -> "exit"
                        [] OTHER           -> AfterError(next)
       IN  /\ pc' = to
           /\ conn' = IF to = "exit" THEN Closed(r.conn) ELSE r.conn
           /\ trace' = IF st = "running" THEN trace
                       ELSE Enter(Append(trace, Event("wait", piece, payload.data,
                                                      st = "err")),
                                  IF to = "piece" THEN "piece" ELSE "none")
           /\ wait' = IF st = "running" THEN r.wait
                      ELSE IF to = "piece" THEN WaitStart(piece) ELSE r.wait
           /\ dl' = CASE res = "running" -> dl
                      [] res = "copy" ->
                            [dl EXCEPT !.i = @ + 1,
                                       !.combinedBlock = CopyBlock(@, begin, payload)]
                      [] OTHER -> [dl EXCEPT !.err = res]
    /\ UNCHANGED <<file, meta, hashed, reply, peer, output, codecVars>>

\* sha1.Sum(combinedBlock), the comparison with info.PieceHashes, and
\* os.WriteFile, which fails on the empty path; then main returns.
DlVerify ==
    /\ pc = "verify"
    /\ LET sumStr == Sha1(dl.combinedBlock)
       IN  IF ~HashMatches(sumStr, meta.info.PieceHashes)
           THEN /\ dl' = [dl EXCEPT !.err = "hash"]
                /\ output' = output
           ELSE IF dl.outputFilepath = <<>>
           THEN /\ dl' = [dl EXCEPT !.err = "write"]
                /\ output' = output
           ELSE /\ dl' = dl
                /\ output' = [written |-> TRUE, data |-> dl.combinedBlock]
    /\ pc' = "exit"
    /\ conn' = Closed(conn)
    /\ UNCHANGED <<file, meta, hashed, reply, peer, wait, trace, codecVars>>

NextDownload ==
    \/ DlMetainfo
    \/ DlGetPeers
    \/ DlDial
    \/ ConnBreaks
    \/ DlHandshakeWrite
    \/ DlHandshakeRead
    \/ DlWaitBitfield
    \/ DlSendInterested
    \/ DlWaitUnchoke
    \/ DlSendRequest
    \/ DlWaitPiece
    \/ DlVerify

SpecDownload == InitDownload /\ [][NextDownload]_vars

\* The places of the trace where a message id was sent (the write may have
\* failed), where a wait for id was called, and where one returned a payload.
Sent(id) ==
    {k \in 1..Len(trace) : trace[k].op = "send" /\ trace[k].id = id}
Awaited(id) ==
    {k \in 1..Len(trace) : trace[k].op = "await" /\ trace[k].id = id}
Received(id) ==
    {k \in 1..Len(trace) :
        trace[k].op = "wait" /\ trace[k].id = id /\ ~trace[k].err}

\* C14: the client writes nothing after its handshake before a wait for
\* the bitfield has returned one, and so sends interested only after it;
\* it sends no request before a wait for unchoke has returned; and it
\* waits for no piece message before it has sent a request.
C14_ProtocolOrdering ==
    /\ Received(bitfield) = {} => (conn.writes <= 1 /\ Len(conn.sent) <= 1)
    /\ \A k \in 1..Len(trace) :
          trace[k].op = "send" => \E j \in Received(bitfield) : j < k
    /\ \A k \in Sent(interested) : \E j \in Received(bitfield) : j < k
    /\ \A k \in Sent(request) : \E j \in Received(unchoke) : j < k
    /\ \A k \in Awaited(piece) :
          \E j \in Sent(request) : j < k /\ ~trace[j].err
    /\ \A k \in 1..Len(trace) :
          (trace[k].op = "wait" /\ trace[k].id = piece) =>
              \E j \in Sent(request) : j < k /\ ~trace[j].err

\* C14's case: a run in which the bitfield and unchoke were received,
\* requests were sent and a piece message was received.
C14_Witness ==
    /\ pc = "verify"
    /\ Received(bitfield) # {} /\ Received(unchoke) # {}
    /\ Sent(interested) # {} /\ Sent(request) # {}
    /\ Received(piece) # {}

\* C15: once the piece messages have been waited for, the number of waits
\* for a piece message equals the number of requests that were sent.
C15_RequestResponseCount ==
    pc = "verify" => Cardinality(Awaited(piece)) = Cardinality(Sent(request))

\* The begin offset and the length in the payload of a request.
RequestBegin(payload)  == IntOf(Uint32(BytesAt(payload, 4, 7)))
RequestLength(payload) == IntOf(Uint32(BytesAt(payload, 8, 11)))

\* C16: the k-th request sent for a piece has the begin offset
\* (k - 1) * blockSize, which lies below the piece length, so the requests
\* start at offset 0; and once all are sent the requested ranges cover
\* every offset of the piece.
C16_BlockPartition ==
    /\ \A k \in Sent(request) :
          LET nth == Cardinality({j \in Sent(request) : j <= k})
          IN  /\ RequestBegin(trace[k].payload) = (nth - 1) * blockSize
              /\ RequestBegin(trace[k].payload) < meta.info.PieceLength
    /\ pc = "verify" =>
          \A off \in 0..(meta.info.PieceLength - 1) :
              \E k \in Sent(request) :
                  /\ RequestBegin(trace[k].payload) <= off
                  /\ off < RequestBegin(trace[k].payload)
                           + RequestLength(trace[k].payload)

\* The peer has sent its handshake and the whole of its script - the
\* blocks of the true piece, tiling it from offset 0 - every read was
\* served whole, and no write failed.
FaithfulPeer ==
    /\ peer.kind = "true" /\ peer.greets /\ peer.cut = 0
    /\ dl.pieceIdx \in {0, 1}
    /\ peer.frames = ScriptOf("true", meta.info.PieceLength, dl.pieceIdx)
    /\ ~conn.writeFails

\* C17: when the peer answers with the blocks of the true piece, the
\* command ends in success: the buffer passes the comparison of the
\* digests and is written to the output file.
C17_AssemblySuccess ==
    (pc = "exit" /\ FaithfulPeer /\ dl.outputFilepath # <<>>) =>
        /\ dl.err = "none"
        /\ output.written
        /\ output.data = TruePiece(meta.info.PieceLength, dl.pieceIdx)

\* The 20 bytes of the pieces string of the torrent for the piece idx.
ValidPieceIdx(f, idx) ==
    /\ f.ok /\ MapGet(f.value.val, InfoKey).kind = "dict"
    /\ 0 <= idx
    /\ (idx + 1) * Sha1Size
          <= Len(MapGet(MapGet(f.value.val, InfoKey).val, PiecesKey).val)
ExpectedDigest(f, idx) ==
    Slice(MapGet(MapGet(f.value.val, InfoKey).val, PiecesKey).val,
          idx * Sha1Size, (idx + 1) * Sha1Size)

\* The command has come to its comparison of the digests.
Compared == pc = "exit" /\ dl.err \in {"none", "hash", "write"}

\* C18: the output file is written only with a buffer whose digest was
\* compared and equals the expected digest of the requested piece; a run
\* whose buffer has another digest ends with the hash error and no write.
C18_VerifiedOutputOnly ==
    /\ output.written =>
          /\ Compared /\ dl.err = "none"
          /\ output.data = dl.combinedBlock
          /\ ValidPieceIdx(file, dl.pieceIdx)
          /\ Sha1(output.data) = ExpectedDigest(file, dl.pieceIdx)
    /\ (/\ Compared
        /\ \/ ~ValidPieceIdx(file, dl.pieceIdx)
           \/ Sha1(dl.combinedBlock) # ExpectedDigest(file, dl.pieceIdx))
          => (dl.err = "hash" /\ ~output.written)

\* C18's case: blocks of a piece with a changed byte were assembled, the
\* digests were compared, and the run ended without a write.
C18_Witness ==
    /\ Compared /\ dl.err = "hash"
    /\ peer.kind = "corrupt" /\ dl.i > 0
    /\ ValidPieceIdx(file, dl.pieceIdx)
    /\ Sha1(dl.combinedBlock) # ExpectedDigest(file, dl.pieceIdx)
    /\ ~output.written

\* A step in which waitPeerMessage returns a piece message whose first four
\* bytes are not the requested piece index.
IndexMismatchStep ==
    /\ pc = "piece" /\ wait.st = "running"
    /\ wait'.st = "ok" /\ wait'.expid = piece
    /\ BufLen(wait'.payloadBuf) >= 4
    /\ Uint32(BufSlice(wait'.payloadBuf, 0, 4)) # U32(dl.pieceIdx)

\* C19: a piece message with another piece index ends the command with the
\* index error: in that step nothing is copied into the buffer and nothing
\* is written to the connection or to the output file, and no step follows
\* it.
C19_IndexMismatchAborts ==
    /\ [][IndexMismatchStep =>
            /\ pc' = "exit" /\ dl'.err = "index"
            /\ dl'.combinedBlock = dl.combinedBlock
            /\ conn'.sent = conn.sent /\ conn'.writes = conn.writes
            /\ output' = output]_vars
    /\ [][dl.err # "index"]_vars
    /\ [](dl.err = "index" => (pc = "exit" /\ ~output.written))

\* C19's case: a peer whose piece messages carry another index, and the
\* command ended by it.
C19_Witness ==
    /\ pc = "exit" /\ dl.err = "index"
    /\ peer.kind = "index"
    /\ Received(piece) # {}

\* C20: an error at any stage ends the command: from the first error on
\* the command stands at its exit, nothing more is sent, awaited or tried
\* again, and no output file is written.
C20_AbortOnFailure ==
    /\ [](dl.err # "none" => (pc = "exit" /\ ~output.written))
    /\ [][dl.err = "none"]_vars

\* C20's case: a request could not be written, after the bitfield and
\* unchoke were received, and the command ended.
C20_Witness ==
    /\ pc = "exit" /\ dl.err = "send"
    /\ Received(unchoke) # {}
    /\ \E k \in Sent(request) : trace[k].err /\ k = Len(trace)
    /\ ~output.written

---------------------------------------------------------------------------
(* Nested containers, under SpecCodec *)

IsContainer(v) == v.kind \in {"list", "dict"}

\* v is a list or a dictionary with a child that is a list or a
\* dictionary and is followed by another child in the encoding.
NestedBeforeSibling(v) ==
    CASE v.kind = "list" ->
            \E k \in 1..(Len(v.val) - 1) : IsContainer(v.val[k])
      [] v.kind = "dict" ->
            \E a, b \in DOMAIN v.val : IsContainer(v.val[a]) /\ StringLess(a, b)
      [] OTHER -> FALSE

\* C23: decoding the encoding of a list or dictionary in which a nested
\* list or dictionary is followed by further children returns every child,
\* in order: the 'e' that ends the nested container does not end its
\* parent.
C23_NestedTerminator ==
    (pc = "decoded" /\ origin = "encoded" /\ NestedBeforeSibling(value)) =>
        /\ decoded.st = "ok"
        /\ decoded.val.kind = value.kind
        /\ decoded.val = value

---------------------------------------------------------------------------
(* waitPeerMessage under a scheduler that keeps the goroutine running *)

\* The process runs on: a read that can return does return.  Nothing is
\* assumed of the peer, whose bytes are those of the initial state.
SpecWireLive == SpecWire /\ WF_vars(WaitRead)

\* waitPeerMessage has been called and has not returned.
Waiting == pc = "wait"

\* C22: waitPeerMessage has no timeout.  It returns only with a frame of
\* the expected id or with a failed read; while the peer keeps the
\* connection open and sends no frame of the expected id it never returns,
\* neither with a payload nor with an error; and when the peer has sent a
\* frame of the expected id, or closes the connection, it returns.
C22_NoTimeout ==
    /\ [](WaitReturned =>
            \/ wait.st = "ok" /\ HasMatch(peer.frames, wait.expid)
            \/ wait.st = "err" /\ conn.eof)
    /\ []((~conn.eof /\ ~HasMatch(peer.frames, wait.expid)) => ~WaitReturned)
    /\ (Waiting /\ (HasMatch(peer.frames, wait.expid) \/ conn.eof))
           ~> WaitReturned

---------------------------------------------------------------------------
(* Frame boundaries, under SpecWire *)

\* The bytes of the peer's stream from frame j + 1 on.
StreamFrom(j) == StreamOf(SubSeq(peer.frames, j + 1, Len(peer.frames)))

\* waitPeerMessage is about to read a length prefix, or has returned a
\* message.
BetweenFrames ==
    \/ pc = "wait" /\ wait.at = "length"
    \/ pc = "done" /\ wait.st = "ok"

\* The bytes one iteration is to take with the read it is at, for the
\* length prefix L it has read: 4 for the prefix, and L for the id and
\* the payload.
IterationBytes(w) ==
    LET L == IntOf(Uint32(w.messageLengthBuf))
    IN  CASE w.at = "length"  -> messageLengthLen
          [] w.at = "id"      -> IF L = 0 THEN 0 ELSE messageIDLen
          [] w.at = "payload" -> IF L = 0 THEN 0 ELSE L - messageIDLen

\* C24: each iteration of waitPeerMessage takes 4 + L bytes from the
\* stream, L being the length prefix of the frame, also when the bytes of
\* a frame arrive in several parts; so after every skipped and every
\* returned message the stream stands at the start of a frame.
C24_FrameAlignment ==
    /\ [][(pc = "wait" /\ wait'.st # "err") =>
             Len(Flatten(conn.inbound)) - Len(Flatten(conn'.inbound))
                 = IterationBytes(wait)]_vars
    /\ [](BetweenFrames =>
             \E j \in 0..Len(peer.frames) : Flatten(conn.inbound) = StreamFrom(j))

---------------------------------------------------------------------------
(* Frames of length zero, under SpecWire *)

\* 2^32 - 1, the value of uint32(0) - 1
WrappedSize == U32(-1)

\* C26: a frame with the length prefix 0 has no id and no payload.  On a
\* stream whose reads are served whole, waitPeerMessage reads no id byte
\* after a prefix of 0, makes no payload buffer of 0 - 1 = 2^32 - 1 bytes,
\* and goes on with the frame after it, so a later frame of the expected
\* id is still returned with its payload.
C26_KeepAlive ==
    peer.cut = 0 =>
        /\ (pc = "wait" /\ wait.at = "id") =>
              Uint32(wait.messageLengthBuf) # U32(0)
        /\ (pc = "wait" /\ wait.at = "payload") => waitSize(wait) # WrappedSize
        /\ (WaitReturned /\ HasMatch(peer.frames, wait.expid)) =>
              /\ wait.st = "ok"
              /\ wait.payloadBuf.data =
                    peer.frames[FirstMatch(peer.frames, wait.expid)].payload

---------------------------------------------------------------------------
(* The assembly buffer, under SpecDownload *)

\* A payload as the client holds it, the bytes no read has filled being
\* zero, and the begin offset in it.
Padded(payload) ==
    payload \o Zeros(IF Len(payload) < 8 THEN 8 - Len(payload) ELSE 0)
PieceBegin(payload) == IntOf(Uint32(BytesAt(Padded(payload), 4, 7)))

\* The offset off of the piece lies in the block of a piece message that
\* was received.
Filled(off) ==
    \E k \in Received(piece) :
        /\ Len(trace[k].payload) > 8
        /\ PieceBegin(trace[k].payload) <= off
        /\ off < PieceBegin(trace[k].payload) + Len(trace[k].payload) - 8

\* C25: when the digest of the buffer is computed, every offset of the
\* piece has been filled from a piece message that was received, whatever
\* the order of the blocks and also when a block is repeated.
C25_FullCoverage ==
    pc = "verify" => \A off \in 0..(meta.info.PieceLength - 1) : Filled(off)

\* waitPeerMessage(conn, piece) returns a payload in this step.
PieceArrives ==
    /\ pc = "piece"
    /\ Len(trace') > Len(trace)
    /\ trace'[Len(trace) + 1].op = "wait" /\ ~trace'[Len(trace) + 1].err

\* C27: whatever piece message arrives - its payload shorter than 8
\* bytes, its begin beyond the piece length, its block running past the
\* end of the piece - main handles it without an index or a slice out of
\* range; the buffer keeps the piece length as its length and changes
\* only at offsets from begin on.
C27_BufferBounds ==
    [][PieceArrives =>
          /\ dl'.err # "panic"
          /\ Len(dl'.combinedBlock) = meta.info.PieceLength
          /\ Len(dl'.combinedBlock) = Len(dl.combinedBlock)
          /\ \A k \in 1..Len(dl.combinedBlock) :
                dl'.combinedBlock[k] # dl.combinedBlock[k] =>
                    k > PieceBegin(trace'[Len(trace) + 1].payload)]_vars

---------------------------------------------------------------------------
(* The choice of the peer, under SpecDownload *)

\* getPeers has returned its list and main is past its net.Dial.
PastDial == pc \notin {"args", "peers", "dial"} /\ dl.peers # <<>>

\* C28: when getPeers returns a list of one or more peers, main calls
\* net.Dial with one address, and it is an address of the list: it does
\* not index the list beyond its end.
C28_PeerSelection ==
    PastDial =>
        /\ Len(dl.dialed) = 1
        /\ \E k \in 1..Len(dl.peers) : dl.dialed[1] = dl.peers[k]

---------------------------------------------------------------------------
(* The two commands that open a connection *)

InitCommands == InitHandshake \/ InitDownload

NextCommands == NextHandshake \/ NextDownload

SpecCommands == InitCommands /\ [][NextCommands]_vars

\* C21: when the handshake command or the download_piece command has
\* ended, by its last statement, by an error return or by a panic, the
\* connection it had opened is closed.
C21_ConnectionReleased == pc = "exit" => ~conn.open

\* C21's case: download_piece had dialed, had written to the peer and had
\* exchanged messages with it, and has ended.
C21_Witness ==
    /\ pc = "exit"
    /\ conn.writes > 0 /\ Len(trace) > 0
    /\ ~conn.open

=============================================================================
